---- MODULE Spec2Model ----
(***************************************************************************)
(* Bella's brain (src/core.js, class BellaAI): the response-production     *)
(* policy of think(), the mode and provider setters, and the text          *)
(* sanitization of the local path.                                         *)
(*                                                                         *)
(* Text is a sequence of tokens.  A token is either one character of Chars *)
(* or a whole literal of the source (a template piece, a canned reply),    *)
(* written as the TLA+ string holding that literal; the length of a text   *)
(* is the sum of the lengths of its tokens.                                *)
(***************************************************************************)
EXTENDS Integers, Sequences, FiniteSets, TLC

VARIABLES
    currentMode,    \* this.currentMode
    useCloudAPI,    \* this.useCloudAPI
    llm,            \* TRUE iff this.llm is set (the LLM load of init succeeded)
    cloudKey,       \* the credential held by the cloud collaborator
    call,           \* the think() invocation in flight, if any
    lastOp,         \* the operation executed by the last step, with its return value
    pairA,          \* think() of an instance with useCloudAPI = true, not configured
    pairB,          \* think() of an instance with useCloudAPI = false, same inputs
    asr,            \* TRUE iff this.asr is set (null after a failed load)
    tts,            \* TRUE iff this.tts is set (null after a failed load)
    localRun,       \* the last run of the local path: what went in, what came out
    composed,       \* the last prompt built by enhancePromptForMode
    wav,            \* the last buffer built by convertFloat32ArrayToWav
    speech,         \* the listen() or speak() invocation in flight, if any
    boot,           \* BellaAI.instance, init() and the getInstance() callers
    page,           \* the page script: its handlers, the chat and the transcript
    video           \* the video crossfade of the page script

\* the variables the operations of BellaAI never write
otherVars == <<asr, tts, localRun, composed, wav, speech, boot, page, video>>

\* the fields and calls of the chat operations; the results of the pure functions
coreVars == <<currentMode, useCloudAPI, llm, cloudKey, call, lastOp, pairA, pairB>>

toolVars == <<localRun, composed, wav>>

vars == <<currentMode, useCloudAPI, llm, cloudKey, call, lastOp, pairA, pairB,
          asr, tts, localRun, composed, wav, speech, boot, page, video>>

(***************************************************************************)
(* Bounds of the model.                                                    *)
(***************************************************************************)
MaxLen == 3     \* longest text a backend returns, echoed prompt not counted
MaxPad == 1     \* longest text a generator puts before an echoed prompt
MaxSamples == 3 \* longest sample array handed to the audio encoder
MaxCallers == 3 \* callers of BellaAI.getInstance()
MaxDraws == 2   \* draws of Math.random() in one run of switchVideo's loop
MaxTasks == 1   \* page handler invocations (chat sends, recognition results) in flight

(***************************************************************************)
(* Text: the String operations the source uses.                            *)
(***************************************************************************)
Chars == {" ", ".", "a"}

IsSpace(t) == t = " "

RECURSIVE StrLen(_)
StrLen(s) == IF s = <<>> THEN 0 ELSE Len(Head(s)) + StrLen(Tail(s))

RECURSIVE TrimStart(_)
TrimStart(s) ==
    IF s # <<>> /\ IsSpace(Head(s)) THEN TrimStart(Tail(s)) ELSE s

RECURSIVE TrimEnd(_)
TrimEnd(s) ==
    IF s # <<>> /\ IsSpace(s[Len(s)]) THEN TrimEnd(SubSeq(s, 1, Len(s) - 1)) ELSE s

Trim(s) == TrimEnd(TrimStart(s))

OccursAt(s, sub, i) ==
    /\ i + Len(sub) - 1 <= Len(s)
    /\ SubSeq(s, i, i + Len(sub) - 1) = sub

Includes(s, sub) == \E i \in 1..(Len(s) + 1) : OccursAt(s, sub, i)

IndexOf(s, sub) ==
    CHOOSE i \in 1..(Len(s) + 1) :
        /\ OccursAt(s, sub, i)
        /\ \A j \in 1..(i - 1) : ~OccursAt(s, sub, j)

\* String.prototype.replace with a string pattern: the first occurrence only.
ReplaceFirst(s, sub, by) ==
    IF Includes(s, sub)
    THEN LET i == IndexOf(s, sub)
         IN  SubSeq(s, 1, i - 1) \o by \o SubSeq(s, i + Len(sub), Len(s))
    ELSE s

(***************************************************************************)
(* The literals of the source.                                             *)
(***************************************************************************)
PersonaLocal     == "You are Bella, a friendly AI assistant."
InstrLocal       == " Please respond naturally and conversationally in English."
OpenLocal        == " User says: \""
CloseQuoted      == "\"\nBella:"
OpenCloud        == "\n\nUser: "
CloseCloud       == "\nBella:"
OpenMode         == " User: \""
PersonaCasual    == "You are Bella, a friendly AI."
InstrCasual      == " Have a natural conversation in English."
PersonaAssistant == "You are Bella, a helpful AI assistant."
InstrAssistant   == " Respond naturally in English."
PersonaCreative  == "You are Bella, a creative AI companion."
InstrCreative    == " Chat naturally in English."

Placeholder == <<"I'm still learning how to think, please wait a moment...">>

naturalResponses ==
    << <<"Hi! I'm doing great, thanks for asking! How about you?">>,
       <<"Hello there! I'm Bella, nice to meet you! What's on your mind?">>,
       <<"Hey! I'm here and ready to chat. What would you like to talk about?">>,
       <<"Hi! I'm feeling wonderful today. How can I help you?">>,
       <<"Hello! Thanks for saying hi. I'm doing well - how are you doing?">> >>

errorResponses ==
    << <<"Sorry, I'm a bit confused right now, let me reorganize my thoughts...">>,
       <<"Hmm... let me think about this more, please wait a moment.">>,
       <<"My thoughts are a bit complex, I need time to organize them.">>,
       <<"Let me reorganize and get back to you, just a moment.">> >>

ValidModes == {"casual", "assistant", "creative"}

(***************************************************************************)
(* Prompt composition.                                                     *)
(***************************************************************************)
\* The prompt thinkWithLocalModel builds for the local generator.
englishPrompt(prompt) ==
    <<PersonaLocal, InstrLocal, OpenLocal>> \o prompt \o <<CloseQuoted>>

\* englishPrompts is an object literal: a lookup by a key it does not own
\* goes on to Object.prototype, whose members are all truthy.
ObjectPrototypeKeys ==
    {"constructor", "hasOwnProperty", "isPrototypeOf", "propertyIsEnumerable",
     "toLocaleString", "toString", "valueOf", "__proto__",
     "__defineGetter__", "__defineSetter__", "__lookupGetter__", "__lookupSetter__"}

\* the value such a lookup yields: a function or an object, never a text
InheritedMember == <<"[Object.prototype member]">>

\* englishPrompts[this.currentMode] || englishPrompts.casual
ModeTemplate(mode, prompt) ==
    CASE mode = "assistant" ->
            <<PersonaAssistant, InstrAssistant, OpenMode>> \o prompt \o <<CloseQuoted>>
      [] mode = "creative" ->
            <<PersonaCreative, InstrCreative, OpenMode>> \o prompt \o <<CloseQuoted>>
      [] mode \in ObjectPrototypeKeys ->
            InheritedMember
      [] OTHER ->
            <<PersonaCasual, InstrCasual, OpenMode>> \o prompt \o <<CloseQuoted>>

\* (variant) the cloud prompt is built from the mode's template too
enhancePromptByModeOnly(prompt, isLocal, mode) == ModeTemplate(mode, prompt)

enhancePromptForMode(prompt, isLocal, mode) ==
    IF isLocal
    THEN ModeTemplate(mode, prompt)
    ELSE <<PersonaLocal, InstrLocal, OpenCloud>> \o prompt \o <<CloseCloud>>

(***************************************************************************)
(* Sanitization of the local generator's text.                             *)
(***************************************************************************)
CleanGenerated(generated, echoed) ==
    IF Includes(generated, echoed)
    THEN Trim(ReplaceFirst(generated, echoed, <<>>))
    ELSE generated

\* (variant) only the empty text and "." are replaced
IsDegenerateNoLength(response) == response = <<>> \/ response = <<".">>

IsDegenerate(response) ==
    \/ response = <<>>
    \/ StrLen(response) < 3
    \/ response = <<".">>
    \/ Trim(response) = <<>>

\* rnd is Math.floor(Math.random() * naturalResponses.length) + 1
LocalAnswer(generated, echoed, rnd) ==
    LET response == CleanGenerated(generated, echoed)
    IN  IF IsDegenerate(response) THEN naturalResponses[rnd] ELSE response

LocalVia(generated, echoed) ==
    IF IsDegenerate(CleanGenerated(generated, echoed)) THEN "pool" ELSE "local"

\* (variant) the reply is drawn from the wrong pool
getNaturalResponse(rnd) == naturalResponses[rnd]

\* rnd is Math.floor(Math.random() * errorResponses.length) + 1
getErrorResponse(rnd) == errorResponses[rnd]

(***************************************************************************)
(* The cloud collaborator (cloudAPI.js), as far as BellaAI uses it.        *)
(***************************************************************************)
KnownProviders == {"openai"}

ProviderArgs == {"local", "openai", "bogus"}

KeyArgs == {"", "k"}

ModeArgs == ValidModes \cup {"invalid"}

isConfigured(key) == key # ""

cloudSwitchProvider(provider) == provider \in KnownProviders

cloudSetAPIKey(provider) == provider \in KnownProviders

(***************************************************************************)
(* One think() invocation.                                                 *)
(*   pc       where the invocation is suspended: "cloud" at the await of   *)
(*            cloudAPI.chat, "local" at the await of this.llm inside the   *)
(*            try block, "fallback" at the await of this.llm inside the    *)
(*            catch block; "done" once resolved, "rejected" once rejected  *)
(*   paths    the paths taken so far (thinkWithCloudAPI, thinkWithLocalModel)*)
(*            each with the prompt handed to its backend, whether the      *)
(*            backend was invoked, how the path ended and what it returned *)
(*   startCloud, cfg, catchCloud   what the invocation read from           *)
(*            this.useCloudAPI and isConfigured() at its start, and from   *)
(*            this.useCloudAPI in its catch block                          *)
(***************************************************************************)
IdleCall ==
    [pc |-> "idle", prompt |-> <<>>, startCloud |-> FALSE, cfg |-> "unevaluated",
     catchCloud |-> "none", paths |-> <<>>, result |-> <<>>, via |-> "none"]

Waiting(c) == c.pc \in {"cloud", "local", "fallback"}

Settled(c) == c.pc \in {"done", "rejected"}

Resolve(c, text, via) == [c EXCEPT !.pc = "done", !.result = text, !.via = via]

EndPath(c, outcome, ret) ==
    [c EXCEPT !.paths[Len(c.paths)].outcome = outcome,
              !.paths[Len(c.paths)].ret = ret]

\* thinkWithCloudAPI up to its await
thinkWithCloudAPI(c, mode) ==
    [c EXCEPT !.pc = "cloud",
              !.paths = Append(@, [path |-> "cloud",
                                   prompt |-> enhancePromptForMode(c.prompt, FALSE, mode),
                                   invoked |-> TRUE, outcome |-> "pending", ret |-> <<>>])]

\* (variant) the generator is invoked without testing this.llm
thinkWithLocalModelUnchecked(c, llmLoaded, at) ==
    [c EXCEPT !.pc = at,
              !.paths = Append(@, [path |-> "local",
                                   prompt |-> englishPrompt(c.prompt),
                                   invoked |-> TRUE, outcome |-> "pending",
                                   ret |-> <<>>])]

\* thinkWithLocalModel up to its await (at: "local" in the try block,
\* "fallback" in the catch block), or to its return when no model is loaded
thinkWithLocalModel(c, llmLoaded, at) ==
    IF ~llmLoaded
    THEN Resolve([c EXCEPT !.paths = Append(@, [path |-> "local", prompt |-> <<>>,
                                                invoked |-> FALSE, outcome |-> "ok",
                                                ret |-> Placeholder])],
                 Placeholder, "placeholder")
    ELSE [c EXCEPT !.pc = at,
                   !.paths = Append(@, [path |-> "local",
                                        prompt |-> englishPrompt(c.prompt),
                                        invoked |-> TRUE, outcome |-> "pending",
                                        ret |-> <<>>])]

\* (variant) the configuration check is left out of the first branch
UseCloudIgnoringConfig(useCloud, cfg) == useCloud

\* the condition of the try block's first branch
UseCloudFirst(useCloud, cfg) == useCloud /\ cfg = "true"

\* (variant) the catch block never falls back to the local path
CatchNeverFallsBack(useCloud) == FALSE

\* the condition of the catch block's fallback
CatchFallsBack(useCloud) == useCloud

\* the catch block of think, entered with this.useCloudAPI = useCloud
CatchBlock(c, useCloud, llmLoaded, rnd) ==
    LET c1 == [c EXCEPT !.catchCloud = IF useCloud THEN "true" ELSE "false"]
    IN  IF CatchFallsBack(useCloud)
        THEN thinkWithLocalModel(c1, llmLoaded, "fallback")
        ELSE Resolve(c1, getErrorResponse(rnd), "apology")

\* (variant) the fallback's failure is not caught
FallbackFailedRethrows(c, rnd) == [c EXCEPT !.pc = "rejected"]

\* the inner catch: the fallback's failure is logged and swallowed
FallbackFailed(c, rnd) == Resolve(c, getErrorResponse(rnd), "apology")

\* think(prompt) from its call to its first suspension (or its return).
\* cfg is what cloudAPI.isConfigured() does: "true", "false" or "raise".
ThinkStart(prompt, useCloud, cfg, llmLoaded, mode, rnd) ==
    LET c == [IdleCall EXCEPT !.prompt = prompt, !.startCloud = useCloud,
                              !.cfg = IF useCloud THEN cfg ELSE "unevaluated"]
    IN  IF useCloud /\ cfg = "raise"
        THEN CatchBlock(c, useCloud, llmLoaded, rnd)
        ELSE IF UseCloudFirst(useCloud, cfg)
             THEN thinkWithCloudAPI(c, mode)
             ELSE thinkWithLocalModel(c, llmLoaded, "local")

\* the local path from the return of this.llm to the return of the path
LocalReturn(c, text, rndN) ==
    LET echoed == englishPrompt(c.prompt)
        answer == LocalAnswer(text, echoed, rndN)
    IN  Resolve(EndPath(c, "ok", answer), answer, LocalVia(text, echoed))

\* think from the settling of the backend call it awaits to its next
\* suspension (or its return).  ok: the backend call returned text.
ThinkResume(c, ok, text, useCloud, llmLoaded, rndN, rndE) ==
    CASE c.pc = "cloud" ->
            IF ok THEN Resolve(EndPath(c, "ok", text), text, "cloud")
            ELSE CatchBlock(EndPath(c, "fail", <<>>), useCloud, llmLoaded, rndE)
      [] c.pc = "local" ->
            IF ok THEN LocalReturn(c, text, rndN)
            ELSE CatchBlock(EndPath(c, "fail", <<>>), useCloud, llmLoaded, rndE)
      [] c.pc = "fallback" ->
            IF ok THEN LocalReturn(c, text, rndN)
            ELSE FallbackFailed(EndPath(c, "fail", <<>>), rndE)

(***************************************************************************)
(* What the backends may return.                                           *)
(***************************************************************************)
Texts == UNION {[1..n -> Chars] : n \in 0..MaxLen}

Pads == UNION {[1..n -> Chars] : n \in 0..MaxPad}

Utterances == {<<>>, <<"a">>}

\* a generated text either ignores the prompt or echoes it somewhere
GeneratedTexts(prompt) ==
    Texts \cup {pre \o englishPrompt(prompt) \o post : pre \in Pads, post \in Texts}

BackendTexts(c) ==
    IF c.pc = "cloud" THEN Texts ELSE GeneratedTexts(c.prompt)

(***************************************************************************)
(* The state after BellaAI.getInstance() has resolved.                     *)
(***************************************************************************)
NoOp == [op |-> "none", arg |-> "", arg2 |-> "", ret |-> FALSE]

NoRun == [prompt |-> <<>>, generated |-> <<>>, returned |-> <<>>, via |-> "none"]

NoPrompt == [prompt |-> <<>>, mode |-> "", isLocal |-> FALSE, text |-> <<>>]

NoWav ==
    [audioData |-> <<>>, sampleRate |-> [hi |-> 0, lo |-> 0, half |-> FALSE],
     byteLength |-> 0, buffer |-> <<>>]

\* no listen() or speak() in flight; synth: 'speechSynthesis' in window
IdleSpeech(synth) ==
    [op |-> "none", pc |-> "idle", synth |-> synth, calls |-> <<>>, failed |-> FALSE,
     outcome |-> "none", kind |-> "none", data |-> <<>>, msg |-> ""]

Callers == 1..MaxCallers

IdleCaller == [pc |-> "idle", obj |-> 0, ready |-> FALSE]

\* BellaAI.instance is null (0) and nobody has called getInstance(); objects
\* are numbered in the order of their construction
NoBoot ==
    [instance |-> 0, constructed |-> 0, inits |-> 0, init |-> "none",
     loads |-> <<>>, failed |-> {}, callers |-> [c \in Callers |-> IdleCaller]]

Tasks == 1..MaxTasks

\* one invocation of chatInterface.onMessageSend or of recognition.onresult:
\* ready: init() had returned when it called think; chat: the messages it has
\* added to the chat; spoken: what speak settled with; encoded: the size of
\* the WAV buffer it built; played: how audio.play() settled
IdleTask ==
    [kind |-> "none", pc |-> "idle", ready |-> FALSE, reply |-> <<>>, chat |-> <<>>,
     spoken |-> "none", encoded |-> 0, played |-> "none"]

\* the page before DOMContentLoaded
NoPage ==
    [loaded |-> FALSE, wired |-> FALSE, bellaAI |-> FALSE, micDisabled |-> FALSE,
     onMessageSend |-> "unset", chatUi |-> "none", listening |-> FALSE,
     transcript |-> <<>>, tasks |-> [t \in Tasks |-> IdleTask]]

\* const videoList, in the order of the source; the files are
\*   "3d"    视频资源/3D 建模图片制作.mp4
\*   "sway"  视频资源/jimeng-2025-07-16-1043-...保持微笑.mp4
\*   "peace" 视频资源/jimeng-2025-07-16-4437-比耶，然后微笑着优雅的左右摇晃.mp4
\*   "cheer" 视频资源/生成加油视频.mp4
\*   "dance" 视频资源/生成跳舞视频.mp4
\*   "angry" 视频资源/负面/jimeng-2025-07-16-9418-...表情微微生气.mp4
videoList == <<"3d", "sway", "peace", "cheer", "dance", "angry">>

\* the crossfade once the page script has run, the markup left open: the
\* elements are video1 (1) and video2 (2); src: the src attribute of each
\* element's <source>; class: the elements bearing the class 'active';
\* playing: the elements whose playback is under way; ended: the elements
\* switchVideo is registered on for 'ended'; canplaythrough: the number of
\* onCanPlayThrough closures registered on each element; nextVideoSrc: what
\* the last run of switchVideo selected; op: what the last step ran
NoVideo ==
    [activeVideo |-> 1, inactiveVideo |-> 2, src |-> <<"", "">>, class |-> {},
     playing |-> {}, ended |-> {1}, canplaythrough |-> <<0, 0>>,
     nextVideoSrc |-> "", op |-> "none"]

Op(name, arg, arg2, ret) == [op |-> name, arg |-> arg, arg2 |-> arg2, ret |-> ret]

Init ==
    /\ currentMode = "casual"
    /\ useCloudAPI = FALSE
    /\ llm \in BOOLEAN
    /\ cloudKey = ""
    /\ call = IdleCall
    /\ lastOp = NoOp
    /\ pairA = IdleCall
    /\ pairB = IdleCall
    /\ asr = TRUE
    /\ tts = TRUE
    /\ localRun = NoRun
    /\ composed = NoPrompt
    /\ wav = NoWav
    /\ speech = IdleSpeech(FALSE)
    /\ boot = NoBoot
    /\ page = NoPage
    /\ video = NoVideo

(***************************************************************************)
(* The operations of BellaAI.                                              *)
(***************************************************************************)
\* (variant) the mode is not validated
AcceptsAnyMode(mode) == TRUE

SetChatModeAccepts(mode) == mode \in ValidModes

\* (variant) the mode is stored before it is validated
setChatModeStoresFirst(mode) ==
    /\ currentMode' = mode
    /\ lastOp' = Op("setChatMode", mode, "", SetChatModeAccepts(mode))
    /\ UNCHANGED <<useCloudAPI, llm, cloudKey, call, pairA, pairB, otherVars>>

setChatMode(mode) ==
    /\ IF SetChatModeAccepts(mode)
       THEN currentMode' = mode /\ lastOp' = Op("setChatMode", mode, "", TRUE)
       ELSE currentMode' = currentMode /\ lastOp' = Op("setChatMode", mode, "", FALSE)
    /\ UNCHANGED <<useCloudAPI, llm, cloudKey, call, pairA, pairB, otherVars>>

\* (variant) the delegated result is ignored
SwitchAlwaysSetsCloud(success) == TRUE

SwitchSetsCloud(success) == success

switchProvider(provider) ==
    /\ IF provider = "local"
       THEN useCloudAPI' = FALSE /\ lastOp' = Op("switchProvider", provider, "", TRUE)
       ELSE LET success == cloudSwitchProvider(provider)
            IN  /\ useCloudAPI' = IF SwitchSetsCloud(success) THEN TRUE ELSE useCloudAPI
                /\ lastOp' = Op("switchProvider", provider, "", success)
    /\ UNCHANGED <<currentMode, llm, cloudKey, call, pairA, pairB, otherVars>>

setAPIKey(provider, apiKey) ==
    /\ cloudKey' = IF cloudSetAPIKey(provider) THEN apiKey ELSE cloudKey
    /\ lastOp' = Op("setAPIKey", provider, apiKey, cloudSetAPIKey(provider))
    /\ UNCHANGED <<currentMode, useCloudAPI, llm, call, pairA, pairB, otherVars>>

clearHistory ==
    /\ lastOp' = Op("clearHistory", "", "", FALSE)
    /\ UNCHANGED <<currentMode, useCloudAPI, llm, cloudKey, call, pairA, pairB, otherVars>>

\* a caller calls think(prompt); isConfigured() may raise
think(prompt, raises) ==
    /\ call.pc = "idle"
    /\ \E rnd \in 1..Len(errorResponses) :
          call' = ThinkStart(prompt, useCloudAPI,
                             IF raises THEN "raise"
                             ELSE IF isConfigured(cloudKey) THEN "true" ELSE "false",
                             llm, currentMode, rnd)
    /\ lastOp' = Op("think", "", "", FALSE)
    /\ UNCHANGED <<currentMode, useCloudAPI, llm, cloudKey, pairA, pairB, otherVars>>

\* Math.random is called only when the cleaned text is replaced
NaturalDraws(c, text) ==
    IF c.pc # "cloud" /\ LocalVia(text, englishPrompt(c.prompt)) = "pool"
    THEN 1..Len(naturalResponses)
    ELSE {1}

\* the backend call think awaits returns a text
BackendReturns ==
    /\ Waiting(call)
    /\ \E text \in BackendTexts(call) :
          \E rndN \in NaturalDraws(call, text) :
              call' = ThinkResume(call, TRUE, text, useCloudAPI, llm, rndN, 1)
    /\ lastOp' = Op("think", "", "", FALSE)
    /\ UNCHANGED <<currentMode, useCloudAPI, llm, cloudKey, pairA, pairB, otherVars>>

\* BackendFails with a catch block that also turns the cloud off
BackendFailsDisablesCloud ==
    /\ Waiting(call)
    /\ \E rndE \in 1..Len(errorResponses) :
          call' = ThinkResume(call, FALSE, <<>>, useCloudAPI, llm, 1, rndE)
    /\ useCloudAPI' = FALSE
    /\ lastOp' = Op("think", "", "", FALSE)
    /\ UNCHANGED <<currentMode, llm, cloudKey, pairA, pairB, otherVars>>

\* the backend call think awaits fails (the request or the inference raises,
\* or the generator's result has no generated_text to clean)
BackendFails ==
    /\ Waiting(call)
    /\ \E rndE \in 1..Len(errorResponses) :
          call' = ThinkResume(call, FALSE, <<>>, useCloudAPI, llm, 1, rndE)
    /\ lastOp' = Op("think", "", "", FALSE)
    /\ UNCHANGED <<currentMode, useCloudAPI, llm, cloudKey, pairA, pairB, otherVars>>

\* the caller takes the settled promise's value
CallerContinues ==
    /\ Settled(call)
    /\ call' = IdleCall
    /\ lastOp' = Op("think", "", "", FALSE)
    /\ UNCHANGED <<currentMode, useCloudAPI, llm, cloudKey, pairA, pairB, otherVars>>

\* A settled promise's continuation is a microtask: it runs before any
\* other event handler gets to call into BellaAI.
HandlerMayRun == ~Settled(call)

Next ==
    \/ HandlerMayRun /\ \E mode \in ModeArgs : setChatMode(mode)
    \/ HandlerMayRun /\ \E provider \in ProviderArgs : switchProvider(provider)
    \/ HandlerMayRun /\ \E provider \in ProviderArgs \ {"local"}, apiKey \in KeyArgs :
          setAPIKey(provider, apiKey)
    \/ HandlerMayRun /\ clearHistory
    \/ \E prompt \in Utterances, raises \in BOOLEAN : think(prompt, raises)
    \/ BackendReturns
    \/ BackendFails
    \/ CallerContinues

Spec == Init /\ [][Next]_vars

(***************************************************************************)
(* think on its own, from every configuration init() and the setters can   *)
(* leave behind: each model handle loaded or null, either backend          *)
(* selection, the cloud collaborator configured or not, any valid mode.    *)
(***************************************************************************)
InitHandles ==
    /\ currentMode \in ValidModes
    /\ useCloudAPI \in BOOLEAN
    /\ llm \in BOOLEAN
    /\ cloudKey \in KeyArgs
    /\ asr \in BOOLEAN
    /\ tts \in BOOLEAN
    /\ call = IdleCall
    /\ lastOp = NoOp
    /\ pairA = IdleCall
    /\ pairB = IdleCall
    /\ localRun = NoRun
    /\ composed = NoPrompt
    /\ wav = NoWav
    /\ speech = IdleSpeech(FALSE)
    /\ boot = NoBoot
    /\ page = NoPage
    /\ video = NoVideo

NextThink ==
    \/ \E prompt \in Utterances, raises \in BOOLEAN : think(prompt, raises)
    \/ BackendReturns
    \/ BackendFails
    \/ CallerContinues

SpecHandles == InitHandles /\ [][NextThink]_vars

(***************************************************************************)
(* think with a handler that switches the provider while a call is         *)
(* pending, and with every backend call think awaits eventually settling.  *)
(***************************************************************************)
InitLive ==
    /\ InitHandles
    /\ currentMode = "casual" /\ asr /\ tts

NextLive ==
    \/ NextThink
    \/ HandlerMayRun /\ \E provider \in ProviderArgs : switchProvider(provider)

BackendsSettle == WF_vars(BackendFails \/ BackendReturns)

SpecLive == InitLive /\ [][NextLive]_vars /\ BackendsSettle

(***************************************************************************)
(* Two instances side by side, given the same utterance and the same       *)
(* generator outcomes: A has useCloudAPI = true with a cloud collaborator  *)
(* that is not configured, B has useCloudAPI = false.  The i-th call of    *)
(* the local generator gets the same outcome in both.                      *)
(***************************************************************************)
PairResume(c, ok, text, useCloud, rndN, rndE) ==
    IF Waiting(c) THEN ThinkResume(c, ok, text, useCloud, llm, rndN, rndE) ELSE c

PairStart(prompt) ==
    /\ pairA.pc = "idle" /\ pairB.pc = "idle"
    /\ \E rnd \in 1..Len(errorResponses) :
          /\ pairA' = ThinkStart(prompt, TRUE, "false", llm, currentMode, rnd)
          /\ pairB' = ThinkStart(prompt, FALSE, "false", llm, currentMode, rnd)
    /\ UNCHANGED <<currentMode, useCloudAPI, llm, cloudKey, call, lastOp, otherVars>>

PairReturns ==
    /\ Waiting(pairA) \/ Waiting(pairB)
    /\ \E text \in GeneratedTexts(pairA.prompt) :
          \E rndN \in 1..Len(naturalResponses) :
              /\ pairA' = PairResume(pairA, TRUE, text, TRUE, rndN, 1)
              /\ pairB' = PairResume(pairB, TRUE, text, FALSE, rndN, 1)
    /\ UNCHANGED <<currentMode, useCloudAPI, llm, cloudKey, call, lastOp, otherVars>>

PairFails ==
    /\ Waiting(pairA) \/ Waiting(pairB)
    /\ \E rndE \in 1..Len(errorResponses) :
          /\ pairA' = PairResume(pairA, FALSE, <<>>, TRUE, 1, rndE)
          /\ pairB' = PairResume(pairB, FALSE, <<>>, FALSE, 1, rndE)
    /\ UNCHANGED <<currentMode, useCloudAPI, llm, cloudKey, call, lastOp, otherVars>>

PairReset ==
    /\ Settled(pairA) /\ Settled(pairB)
    /\ pairA' = IdleCall /\ pairB' = IdleCall
    /\ UNCHANGED <<currentMode, useCloudAPI, llm, cloudKey, call, lastOp, otherVars>>

NextPair ==
    \/ \E prompt \in Utterances : PairStart(prompt)
    \/ PairReturns
    \/ PairFails
    \/ PairReset

SpecPair == Init /\ [][NextPair]_vars

(***************************************************************************)
(* The local path on its own: thinkWithLocalModel(prompt) with a generator *)
(* that returns `text`.                                                    *)
(***************************************************************************)
RunLocalPath(prompt, text, rnd) ==
    LET c0 == thinkWithLocalModel([IdleCall EXCEPT !.prompt = prompt], llm, "local")
        c1 == IF Waiting(c0) THEN LocalReturn(c0, text, rnd) ELSE c0
    IN  /\ localRun = NoRun
        /\ localRun' = [prompt |-> prompt, generated |-> text,
                        returned |-> c1.result, via |-> c1.via]
        /\ UNCHANGED <<currentMode, useCloudAPI, llm, cloudKey, call, lastOp,
                       pairA, pairB, asr, tts, composed, wav, speech, boot, page, video>>

NextLocal ==
    \E prompt \in Utterances :
        \E text \in GeneratedTexts(prompt), rnd \in 1..Len(naturalResponses) :
            RunLocalPath(prompt, text, rnd)

SpecLocal == Init /\ [][NextLocal]_vars

(***************************************************************************)
(* enhancePromptForMode on its own, for any value of the currentMode field. *)
(***************************************************************************)
ModeValues == ValidModes \cup {"invalid", "", "constructor", "toString", "__proto__"}

ComposePrompt(prompt, isLocal, mode) ==
    /\ composed = NoPrompt
    /\ composed' = [prompt |-> prompt, mode |-> mode, isLocal |-> isLocal,
                    text |-> enhancePromptForMode(prompt, isLocal, mode)]
    /\ UNCHANGED <<currentMode, useCloudAPI, llm, cloudKey, call, lastOp,
                   pairA, pairB, asr, tts, localRun, wav, speech, boot, page, video>>

NextPrompt ==
    \E prompt \in Texts, isLocal \in BOOLEAN, mode \in ModeValues :
        ComposePrompt(prompt, isLocal, mode)

SpecPrompt == Init /\ [][NextPrompt]_vars

(***************************************************************************)
(* convertFloat32ArrayToWav(audioData, sampleRate) of the page script.      *)
(*                                                                         *)
(* A JavaScript number reaches past 32 bits, so a non-negative number is   *)
(* kept as [hi, lo, half]: its value is hi * 65536 + lo, plus 0.5 when     *)
(* half is set, with 0 <= lo < 65536 and hi unbounded.  A sample is the    *)
(* fraction n / d with d > 0.  The buffer is a sequence of bytes; the byte *)
(* at offset k is element k + 1.                                           *)
(***************************************************************************)
Number(n) == [hi |-> n \div 65536, lo |-> n % 65536, half |-> FALSE]

\* (variant) the byte rate is written without the doubling
TimesOne(w) == w

\* sampleRate * 2
Times2(w) ==
    LET l == 2 * w.lo + (IF w.half THEN 1 ELSE 0)
    IN  [hi |-> 2 * w.hi + l \div 65536, lo |-> l % 65536, half |-> FALSE]

CharCode ==
    [c \in {"R", "I", "F", "W", "A", "V", "E", "f", "m", "t", " ", "d", "a"} |->
        CASE c = "R" -> 82  [] c = "I" -> 73  [] c = "F" -> 70  [] c = "W" -> 87
          [] c = "A" -> 65  [] c = "V" -> 86  [] c = "E" -> 69  [] c = "f" -> 102
          [] c = "m" -> 109 [] c = "t" -> 116 [] c = " " -> 32  [] c = "d" -> 100
          [] c = "a" -> 97]

\* new ArrayBuffer(size): zero-filled
ArrayBuffer(size) == [k \in 1..size |-> 0]

SetBytes(buffer, offset, bytes) ==
    [k \in DOMAIN buffer |->
        IF k - 1 - offset \in 0..(Len(bytes) - 1) THEN bytes[k - offset] ELSE buffer[k]]

writeString(buffer, offset, string) ==
    SetBytes(buffer, offset, [i \in 1..Len(string) |-> CharCode[string[i]]])

\* the low 16 bits of an integer, low byte first
LittleEndian16(v) == <<(v % 65536) % 256, (v % 65536) \div 256>>

\* DataView.setUint32(offset, value, true): the integer part modulo 2^32
setUint32(buffer, offset, w) ==
    SetBytes(buffer, offset, LittleEndian16(w.lo) \o LittleEndian16(w.hi))

\* DataView.setUint16(offset, value, true)
setUint16(buffer, offset, v) == SetBytes(buffer, offset, LittleEndian16(v))

\* (variant) the sample is scaled as it comes
ClampNothing(sample) == sample

\* Math.max(-1, Math.min(1, audioData[i]))
Clamp(sample) ==
    IF sample.n > sample.d THEN [n |-> 1, d |-> 1]
    ELSE IF sample.n < -sample.d THEN [n |-> -1, d |-> 1]
    ELSE sample

\* (variant) the sample is scaled by 0x8000
ScaledBy32768(sample) ==
    IF sample.n >= 0
    THEN (sample.n * 32768) \div sample.d
    ELSE -(((-sample.n) * 32768) \div sample.d)

\* the integer part of sample * 0x7FFF, rounded toward zero
Scaled(sample) ==
    IF sample.n >= 0
    THEN (sample.n * 32767) \div sample.d
    ELSE -(((-sample.n) * 32767) \div sample.d)

\* DataView.setInt16(offset, value, true): two's complement, modulo 2^16
setInt16(buffer, offset, v) == SetBytes(buffer, offset, LittleEndian16(v))

RECURSIVE WriteSamples(_, _, _)
WriteSamples(buffer, audioData, i) ==
    IF i > Len(audioData)
    THEN buffer
    ELSE WriteSamples(setInt16(buffer, 44 + 2 * (i - 1), Scaled(Clamp(audioData[i]))),
                      audioData, i + 1)

WriteHeader(buffer, length, sampleRate) ==
    LET b1  == writeString(buffer, 0, <<"R", "I", "F", "F">>)
        b2  == setUint32(b1, 4, Number(36 + length * 2))
        b3  == writeString(b2, 8, <<"W", "A", "V", "E">>)
        b4  == writeString(b3, 12, <<"f", "m", "t", " ">>)
        b5  == setUint32(b4, 16, Number(16))
        b6  == setUint16(b5, 20, 1)
        b7  == setUint16(b6, 22, 1)
        b8  == setUint32(b7, 24, sampleRate)
        b9  == setUint32(b8, 28, Times2(sampleRate))
        b10 == setUint16(b9, 32, 2)
        b11 == setUint16(b10, 34, 16)
        b12 == writeString(b11, 36, <<"d", "a", "t", "a">>)
    IN  setUint32(b12, 40, Number(length * 2))

convertFloat32ArrayToWav(audioData, sampleRate) ==
    LET length == Len(audioData)
        buffer == ArrayBuffer(44 + length * 2)
    IN  WriteSamples(WriteHeader(buffer, length, sampleRate), audioData, 1)

\* sample values: in range, on the limits and beyond them
Samples ==
    {[n |-> -2, d |-> 1], [n |-> -1, d |-> 1], [n |-> -1, d |-> 2], [n |-> 0, d |-> 1],
     [n |-> 1, d |-> 4], [n |-> 1, d |-> 2], [n |-> 1, d |-> 1], [n |-> 3, d |-> 2]}

AudioArrays == UNION {[1..n -> Samples] : n \in 0..MaxSamples}

\* 0, 8000, 16000 (the page's rate), 44100, 65536, 2^31 - 1, 2^31, 2^32 - 1,
\* 2^32 and 11025.5
SampleRates ==
    {Number(0), Number(8000), Number(16000), Number(44100), Number(65536),
     [hi |-> 32767, lo |-> 65535, half |-> FALSE],
     [hi |-> 32768, lo |-> 0, half |-> FALSE],
     [hi |-> 65535, lo |-> 65535, half |-> FALSE],
     [hi |-> 65536, lo |-> 0, half |-> FALSE],
     [hi |-> 0, lo |-> 11025, half |-> TRUE]}

EncodeWav(audioData, sampleRate) ==
    LET buffer == convertFloat32ArrayToWav(audioData, sampleRate)
    IN  /\ wav = NoWav
        /\ wav' = [audioData |-> audioData, sampleRate |-> sampleRate,
                   byteLength |-> Len(buffer), buffer |-> buffer]
        /\ UNCHANGED <<currentMode, useCloudAPI, llm, cloudKey, call, lastOp,
                       pairA, pairB, asr, tts, localRun, composed,
                       speech, boot, page, video>>

NextWav ==
    /\ wav = NoWav
    /\ \E audioData \in AudioArrays, sampleRate \in SampleRates :
          EncodeWav(audioData, sampleRate)

SpecWav == Init /\ [][NextWav]_vars

(***************************************************************************)
(* listen(audioData) and speak(text).  Each await is a step; speech.calls  *)
(* lists what the invocation has called: the ASR or TTS pipeline, fetch,   *)
(* the platform's speechSynthesis.                                         *)
(***************************************************************************)
InitSpeech ==
    /\ currentMode = "casual"
    /\ useCloudAPI = FALSE
    /\ llm \in BOOLEAN
    /\ cloudKey = ""
    /\ call = IdleCall
    /\ lastOp = NoOp
    /\ pairA = IdleCall
    /\ pairB = IdleCall
    /\ asr \in BOOLEAN
    /\ tts \in BOOLEAN
    /\ localRun = NoRun
    /\ composed = NoPrompt
    /\ wav = NoWav
    /\ \E synth \in BOOLEAN : speech = IdleSpeech(synth)
    /\ boot = NoBoot
    /\ page = NoPage
    /\ video = NoVideo

SpeechResolve(s, kind, data) ==
    [s EXCEPT !.outcome = "resolved", !.kind = kind, !.data = data]

SpeechReject(s, msg) ==
    [s EXCEPT !.pc = "thrown", !.outcome = "rejected", !.kind = "error", !.msg = msg]

\* (variant) without a voice, speak resolves to an empty result
WebSpeechOrNothing(s) ==
    IF s.synth
    THEN [s EXCEPT !.pc = "synth", !.calls = Append(@, "speechSynthesis")]
    ELSE SpeechResolve([s EXCEPT !.pc = "returned"], "audio", <<>>)

\* the Web Speech fallback of speak, up to speechSynthesis.speak(utterance)
WebSpeech(s) ==
    IF s.synth
    THEN [s EXCEPT !.pc = "synth", !.calls = Append(@, "speechSynthesis")]
    ELSE SpeechReject(s, "TTS is not available")

\* what the TTS pipeline's result holds as audio, when it holds any
TtsAudio == {a \in AudioArrays : Len(a) <= 1}

SpeechStep(s) == speech' = s /\ UNCHANGED <<coreVars, asr, tts, toolVars, boot, page, video>>

listen(audioData) ==
    /\ speech.pc = "idle"
    /\ SpeechStep(IF ~asr
                  THEN SpeechReject([speech EXCEPT !.op = "listen"],
                                    "Speech recognition model not initialized")
                  ELSE [speech EXCEPT !.op = "listen", !.pc = "asr", !.outcome = "pending",
                                      !.calls = Append(@, "asr")])

\* this.asr(audioData) settles; result.text is returned
AsrSettles ==
    /\ speech.pc = "asr"
    /\ \E ok \in BOOLEAN, text \in Utterances :
          SpeechStep(IF ok
                     THEN SpeechResolve([speech EXCEPT !.pc = "returned"], "text", text)
                     ELSE SpeechReject(speech, "recognition failed"))

speak(text) ==
    /\ speech.pc = "idle"
    /\ SpeechStep(IF tts
                  THEN [speech EXCEPT !.op = "speak", !.pc = "fetch", !.outcome = "pending",
                                      !.calls = Append(@, "fetch")]
                  ELSE WebSpeech([speech EXCEPT !.op = "speak", !.outcome = "pending"]))

\* the speaker embeddings arrive (response.ok and its arrayBuffer), or not
FetchSettles ==
    /\ speech.pc = "fetch"
    /\ \E ok \in BOOLEAN :
          SpeechStep(IF ok
                     THEN [speech EXCEPT !.pc = "tts", !.calls = Append(@, "tts")]
                     ELSE WebSpeech([speech EXCEPT !.failed = TRUE]))

\* this.tts(text, ...) settles: with audio, without any, or by failing
TtsSettles ==
    /\ speech.pc = "tts"
    /\ \/ \E audio \in TtsAudio :
             SpeechStep(SpeechResolve([speech EXCEPT !.pc = "returned"], "audio", audio))
       \/ SpeechStep(WebSpeech([speech EXCEPT !.failed = TRUE]))

\* utterance.onstart: playback has started
SynthStarts ==
    /\ speech.pc = "synth"
    /\ SpeechStep(SpeechResolve([speech EXCEPT !.pc = "playing"], "true", <<>>))

\* utterance.onerror before playback started
SynthErrors ==
    /\ speech.pc = "synth"
    /\ SpeechStep(SpeechReject(speech, "synthesis error"))

\* the caller takes the settled promise
SpeechReturns ==
    /\ speech.outcome \in {"resolved", "rejected"}
    /\ SpeechStep(IdleSpeech(speech.synth))

NextSpeech ==
    \/ \E audioData \in TtsAudio : listen(audioData)
    \/ AsrSettles
    \/ \E text \in Utterances : speak(text)
    \/ FetchSettles
    \/ TtsSettles
    \/ SynthStarts
    \/ SynthErrors
    \/ SpeechReturns

SpecSpeech == InitSpeech /\ [][NextSpeech]_vars

(***************************************************************************)
(* BellaAI.getInstance() and init().  getInstance runs to its await (or to *)
(* its return) in one step; each model load of init settles in one step.   *)
(***************************************************************************)
InitBoot ==
    /\ currentMode = "casual"
    /\ useCloudAPI = FALSE
    /\ llm = FALSE
    /\ cloudKey = ""
    /\ call = IdleCall
    /\ lastOp = NoOp
    /\ pairA = IdleCall
    /\ pairB = IdleCall
    /\ asr = FALSE
    /\ tts = FALSE
    /\ localRun = NoRun
    /\ composed = NoPrompt
    /\ wav = NoWav
    /\ speech = IdleSpeech(FALSE)
    /\ boot = NoBoot
    /\ page = NoPage
    /\ video = NoVideo

\* (variant) the test of the static field always succeeds
InstanceNeverSet(b) == TRUE

\* this.instance === null
InstanceIsNull(b) == b.instance = 0

\* (variant) a failed load is not caught: init rejects and stops
LoadFailedRethrows(b, name) == [b EXCEPT !.failed = @ \cup {name}, !.init = "rejected"]

\* the catch block of a load: the failure is logged, init goes on
LoadFailed(b, name) == [b EXCEPT !.failed = @ \cup {name}]

\* (variant) getInstance does not wait for init: its caller is resumed when
\* the first load has settled
InitGoesOnCallerResumed(b) ==
    CASE b.init = "llm" ->
            [b EXCEPT !.init = "asr", !.loads = Append(@, "asr"),
                      !.callers = [c \in Callers |->
                                     IF b.callers[c].pc = "awaiting"
                                     THEN [pc |-> "resolved", obj |-> b.instance,
                                           ready |-> FALSE]
                                     ELSE b.callers[c]]]
      [] b.init = "asr" -> [b EXCEPT !.init = "tts", !.loads = Append(@, "tts")]
      [] b.init = "tts" -> [b EXCEPT !.init = "done"]
      [] OTHER -> b

\* init moves on to its next load, or returns: getInstance's await is over
\* and every caller suspended on it gets this.instance
InitGoesOn(b) ==
    CASE b.init = "llm" -> [b EXCEPT !.init = "asr", !.loads = Append(@, "asr")]
      [] b.init = "asr" -> [b EXCEPT !.init = "tts", !.loads = Append(@, "tts")]
      [] b.init = "tts" ->
            [b EXCEPT !.init = "done",
                      !.callers = [c \in Callers |->
                                     IF b.callers[c].pc = "awaiting"
                                     THEN [pc |-> "resolved", obj |-> b.instance,
                                           ready |-> TRUE]
                                     ELSE b.callers[c]]]
      [] OTHER -> b

\* getInstance, called by c, up to its await or its return
getInstanceCall(b, c) ==
    IF InstanceIsNull(b)
    THEN [b EXCEPT !.instance = b.constructed + 1,
                   !.constructed = @ + 1,
                   !.inits = @ + 1,
                   !.init = "llm",
                   !.loads = Append(@, "llm"),
                   !.callers[c] = [pc |-> "awaiting", obj |-> b.constructed + 1,
                                   ready |-> FALSE]]
    ELSE [b EXCEPT !.callers[c] = [pc |-> "resolved", obj |-> b.instance,
                                   ready |-> b.init = "done"]]

\* the handles of the object getInstance hands to init: unset on a new object
HandleAfterCall(b, handle) == IF InstanceIsNull(b) THEN FALSE ELSE handle

getInstance(c) ==
    /\ boot.callers[c].pc = "idle"
    /\ boot' = getInstanceCall(boot, c)
    /\ llm' = HandleAfterCall(boot, llm)
    /\ asr' = HandleAfterCall(boot, asr)
    /\ tts' = HandleAfterCall(boot, tts)
    /\ UNCHANGED <<currentMode, useCloudAPI, cloudKey, call, lastOp, pairA, pairB,
                   toolVars, speech, page, video>>

\* the load init awaits settles: the handle is assigned, or the catch block
\* runs (this.llm stays unset, this.asr and this.tts become null)
LoadSettles(ok) ==
    /\ boot.init \in {"llm", "asr", "tts"}
    /\ boot' = IF ok THEN InitGoesOn(boot) ELSE InitGoesOn(LoadFailed(boot, boot.init))
    /\ llm' = IF boot.init = "llm" THEN ok ELSE llm
    /\ asr' = IF boot.init = "asr" THEN ok ELSE asr
    /\ tts' = IF boot.init = "tts" THEN ok ELSE tts
    /\ UNCHANGED <<currentMode, useCloudAPI, cloudKey, call, lastOp, pairA, pairB,
                   toolVars, speech, page, video>>

NextBoot ==
    \/ \E c \in Callers : getInstance(c)
    \/ \E ok \in BOOLEAN : LoadSettles(ok)

SpecBoot == InitBoot /\ [][NextBoot]_vars

(***************************************************************************)
(* The page script.  Its DOMContentLoaded handler calls getInstance (as    *)
(* caller 1) and, once that has settled, sets the chat callback and        *)
(* registers the recognition and microphone handlers.  The transcript      *)
(* element is the sequence of its child nodes; assigning textContent       *)
(* replaces them all by one text node.  ChatInterface is not part of the   *)
(* sources: addMessage is taken to append a message to the chat.           *)
(***************************************************************************)
Node(kind, task, text) == [kind |-> kind, task |-> task, text |-> text]

\* transcript.textContent = text
TextContent(text) == <<Node("text", 0, text)>>

\* chatInterface.addMessage(role, text), noted with the invocation that calls it
AddMessage(task, role, text) ==
    [task EXCEPT !.chat = Append(@, [role |-> role, text |-> text])]

\* chatInterface && chatInterface.getVisibility()
ChatShown(p) == p.chatUi = "visible"

AddMessageIfShown(p, task, role, text) ==
    IF ChatShown(p) THEN AddMessage(task, role, text) ELSE task

ThinkingNode(t) == Node("thinking", t, <<"thinking...">>)

ErrorMsg == <<"a problem occurred while processing">>

\* what think resolves to, and what the user says or types
Replies == {<<"a">>}

UserTexts == {<<"a">>}

\* what speak can settle with: the platform voice started (true), audio from
\* the TTS pipeline (possibly of no samples), or a rejection
SpeakOutcomes(ttsLoaded) ==
    {[kind |-> "true", data |-> <<>>], [kind |-> "rejected", data |-> <<>>]}
    \cup (IF ttsLoaded
          THEN {[kind |-> "audio", data |-> <<[n |-> 1, d |-> 2]>>],
                [kind |-> "empty", data |-> <<>>]}
          ELSE {})

\* (variant) the catch block around speak also tells the user
TtsErrorShown(task) == AddMessage(task, "assistant", ErrorMsg)

\* catch (ttsError): the failure is logged
TtsErrorCaught(task) == task

\* catch (error) of the DOMContentLoaded handler: getInstance rejected
InitFailed(p) ==
    [p EXCEPT !.transcript = TextContent(<<"AI model loading failed">>),
              !.onMessageSend = IF p.chatUi # "none" THEN "fallback" ELSE "unset",
              !.micDisabled = TRUE,
              !.wired = TRUE]

\* the DOMContentLoaded handler after `bellaAI = await BellaAI.getInstance()`
InitSucceeded(p) ==
    [p EXCEPT !.bellaAI = TRUE,
              !.onMessageSend = IF p.chatUi # "none" THEN "ai" ELSE "unset",
              !.micDisabled = FALSE,
              !.transcript = TextContent(<<"Bella is ready">>),
              !.wired = TRUE]

\* a new invocation takes the first slot that is free
FreeSlot(t) ==
    /\ page.tasks[t].pc = "idle"
    /\ \A u \in Tasks : u < t => page.tasks[u].pc # "idle"

PageStep(p) == page' = p /\ UNCHANGED <<coreVars, asr, tts, toolVars, speech, boot, video>>

TaskStep(t, task) == PageStep([page EXCEPT !.tasks[t] = task])

\* DOMContentLoaded, up to the await of getInstance; chatOk: new
\* ChatInterface() succeeded; ctorRaises: new BellaAI() raises
PageLoad(chatOk, ctorRaises) ==
    /\ ~page.loaded
    /\ LET p == [page EXCEPT !.loaded = TRUE,
                             !.chatUi = IF chatOk THEN "hidden" ELSE "none",
                             !.micDisabled = TRUE,
                             !.transcript = TextContent(<<"waking Bella's core">>)]
       IN  IF ctorRaises
           THEN /\ page' = InitFailed(p)
                /\ UNCHANGED <<boot, llm, asr, tts>>
           ELSE /\ page' = p
                /\ boot' = getInstanceCall(boot, 1)
                /\ llm' = HandleAfterCall(boot, llm)
                /\ asr' = HandleAfterCall(boot, asr)
                /\ tts' = HandleAfterCall(boot, tts)
    /\ UNCHANGED <<currentMode, useCloudAPI, cloudKey, call, lastOp, pairA, pairB,
                   toolVars, speech, video>>

PageInitResumes ==
    /\ page.loaded /\ ~page.wired
    /\ boot.callers[1].pc = "resolved"
    /\ PageStep(InitSucceeded(page))

\* getInstance has resolved and the handler's continuation has not run yet:
\* it is a microtask, no timer or event handler runs before it
ContinuationDue == page.loaded /\ ~page.wired /\ boot.callers[1].pc = "resolved"

\* the timer that shows the chat after 2 s; later, the chat toggle button
ToggleChat ==
    /\ page.loaded /\ page.chatUi # "none" /\ ~ContinuationDue
    /\ page.wired \/ page.chatUi = "hidden"
    /\ PageStep([page EXCEPT !.chatUi = IF @ = "hidden" THEN "visible" ELSE "hidden"])

\* chatInterface.onMessageSend(message), up to the await of think
ChatSend(t) ==
    /\ page.onMessageSend = "ai"
    /\ FreeSlot(t)
    /\ TaskStep(t, [IdleTask EXCEPT !.kind = "chat", !.pc = "think",
                                    !.ready = boot.init = "done"])

\* the callback installed when getInstance rejected: a timer, then a canned reply
ChatSendFallback(t) ==
    /\ page.onMessageSend = "fallback"
    /\ FreeSlot(t)
    /\ TaskStep(t, [IdleTask EXCEPT !.kind = "fallback", !.pc = "timer"])

FallbackTimer(t) ==
    /\ page.tasks[t].pc = "timer"
    /\ TaskStep(t, AddMessage([page.tasks[t] EXCEPT !.pc = "done"], "assistant",
                              <<"My AI core is still loading">>))

\* click on the microphone button (a disabled button gets no click)
MicClick ==
    /\ page.wired /\ ~page.micDisabled
    /\ PageStep([page EXCEPT !.listening = ~@,
                             !.transcript = IF page.listening
                                            THEN TextContent(<<>>)
                                            ELSE TextContent(<<"listening...">>)])

\* recognition.onresult with an interim result
InterimResult(text) ==
    /\ page.wired /\ page.listening
    /\ PageStep([page EXCEPT !.transcript = TextContent(<<"you: ">> \o text)])

\* recognition.onresult with a final result, up to the await of think
FinalResult(t, text) ==
    /\ page.wired /\ page.listening
    /\ IF page.bellaAI
       THEN /\ FreeSlot(t)
            /\ PageStep([page EXCEPT
                  !.transcript = TextContent(<<"you: ">> \o text) \o <<ThinkingNode(t)>>,
                  !.tasks[t] = AddMessageIfShown(page,
                                  [IdleTask EXCEPT !.kind = "voice", !.pc = "think",
                                                   !.ready = boot.init = "done"],
                                  "user", text)])
       ELSE /\ FreeSlot(t)
            /\ PageStep([page EXCEPT !.transcript = TextContent(<<"you: ">> \o text)])

HasChild(transcript, node) == \E i \in DOMAIN transcript : transcript[i] = node

RemoveChild(transcript, node) ==
    LET keep(n) == n # node IN SelectSeq(transcript, keep)

\* think has resolved: the handler shows the reply and calls speak.  In the
\* voice handler removeChild raises when the thinking node is no longer a
\* child of the transcript, and the outer catch block reports a problem.
ThinkSettles(t, reply) ==
    LET task == [page.tasks[t] EXCEPT !.reply = reply]
    IN  /\ task.pc = "think"
        /\ IF task.kind = "chat"
           THEN TaskStep(t, AddMessage([task EXCEPT !.pc = "speak"], "assistant", reply))
           ELSE IF HasChild(page.transcript, ThinkingNode(t))
           THEN PageStep([page EXCEPT
                   !.transcript = Append(RemoveChild(@, ThinkingNode(t)),
                                         Node("bella", t, reply)),
                   !.tasks[t] = AddMessageIfShown(page, [task EXCEPT !.pc = "speak"],
                                                  "assistant", reply)])
           ELSE PageStep([page EXCEPT
                   !.transcript = Append(@, Node("error", t, ErrorMsg)),
                   !.tasks[t] = AddMessageIfShown(page, [task EXCEPT !.pc = "done"],
                                                  "assistant", ErrorMsg)])

\* speak has settled
SpeakSettles(t, outcome) ==
    LET task == [page.tasks[t] EXCEPT !.spoken = outcome.kind]
    IN  /\ task.pc = "speak"
        /\ TaskStep(t,
              IF outcome.kind = "rejected"
              THEN TtsErrorCaught([task EXCEPT !.pc = "done"])
              ELSE IF task.kind = "voice" /\ outcome.kind = "audio"
              THEN [task EXCEPT !.pc = "play",
                                !.encoded = Len(convertFloat32ArrayToWav(outcome.data,
                                                                         Number(16000)))]
              ELSE [task EXCEPT !.pc = "done"])

\* audio.play() has settled
PlaySettles(t, ok) ==
    /\ page.tasks[t].pc = "play"
    /\ TaskStep(t, IF ok
                   THEN [page.tasks[t] EXCEPT !.pc = "done", !.played = "played"]
                   ELSE TtsErrorCaught([page.tasks[t] EXCEPT !.pc = "done",
                                                             !.played = "failed"]))

\* the handler invocation is over
TaskEnds(t) ==
    /\ page.tasks[t].pc = "done"
    /\ TaskStep(t, IdleTask)

NextPage ==
    \/ \E chatOk, ctorRaises \in BOOLEAN : PageLoad(chatOk, ctorRaises)
    \/ \E ok \in BOOLEAN : LoadSettles(ok)
    \/ PageInitResumes
    \/ ToggleChat
    \/ MicClick
    \/ \E text \in UserTexts : InterimResult(text)
    \/ \E t \in Tasks :
          \/ ChatSend(t)
          \/ ChatSendFallback(t)
          \/ FallbackTimer(t)
          \/ \E text \in UserTexts : FinalResult(t, text)
          \/ \E reply \in Replies : ThinkSettles(t, reply)
          \/ \E outcome \in SpeakOutcomes(tts) : SpeakSettles(t, outcome)
          \/ \E ok \in BOOLEAN : PlaySettles(t, ok)
          \/ TaskEnds(t)

SpecPage == InitBoot /\ [][NextPage]_vars

(***************************************************************************)
(* The video crossfade of the page script: switchVideo runs when the       *)
(* active element's playback ends and prepares the inactive element; the   *)
(* closure onCanPlayThrough swaps the roles when that element can play.    *)
(* The markup is not among the sources: the src attributes, the classes    *)
(* and the playback the script finds are inputs.                           *)
(***************************************************************************)
InitVideo ==
    /\ currentMode = "casual"
    /\ useCloudAPI = FALSE
    /\ llm = FALSE
    /\ cloudKey = ""
    /\ call = IdleCall
    /\ lastOp = NoOp
    /\ pairA = IdleCall
    /\ pairB = IdleCall
    /\ asr = FALSE
    /\ tts = FALSE
    /\ localRun = NoRun
    /\ composed = NoPrompt
    /\ wav = NoWav
    /\ speech = IdleSpeech(FALSE)
    /\ boot = NoBoot
    /\ page = NoPage
    /\ \E src1, src2 \in {videoList[i] : i \in DOMAIN videoList} \cup {"markup.mp4"},
          class, playing \in SUBSET {1, 2} :
          video = [NoVideo EXCEPT !.src = <<src1, src2>>,
                                  !.class = class, !.playing = playing]

\* switchVideo(), given the draws of Math.random() its loop may take: the
\* loop draws until the source drawn differs from the active element's
switchVideo(v, draws) ==
    LET currentVideoSrc == v.src[v.activeVideo]
        RECURSIVE Drawn(_, _)
        Drawn(nextVideoSrc, i) ==
            IF nextVideoSrc = currentVideoSrc /\ i <= Len(draws)
            THEN Drawn(videoList[draws[i]], i + 1)
            ELSE nextVideoSrc
        nextVideoSrc == Drawn(currentVideoSrc, 1)
    IN  [v EXCEPT !.src[v.inactiveVideo] = nextVideoSrc,
                  !.playing = @ \ {v.inactiveVideo},
                  !.canplaythrough[v.inactiveVideo] = @ + 1,
                  !.nextVideoSrc = nextVideoSrc,
                  !.op = "switchVideo"]

\* (variant) the roles stay as they are
onCanPlayThroughKeepsRoles(v, played) ==
    [v EXCEPT !.playing = IF played THEN @ \cup {v.inactiveVideo} ELSE @,
              !.class = (@ \ {v.activeVideo}) \cup {v.inactiveVideo},
              !.ended = @ \cup {v.activeVideo},
              !.op = "onCanPlayThrough"]

\* the closure onCanPlayThrough; it reads activeVideo and inactiveVideo when
\* it runs.  Its removeEventListener finds nothing to remove: the closure was
\* registered with once and is taken off its element before it is called.
\* played: play() started the playback (its rejection is only logged)
onCanPlayThrough(v, played) ==
    [v EXCEPT !.playing = IF played THEN @ \cup {v.inactiveVideo} ELSE @,
              !.class = (@ \ {v.activeVideo}) \cup {v.inactiveVideo},
              !.activeVideo = v.inactiveVideo,
              !.inactiveVideo = v.activeVideo,
              !.ended = @ \cup {v.inactiveVideo},
              !.op = "onCanPlayThrough"]

\* the playback of an element reaches its end: 'ended' is dispatched to it,
\* and switchVideo, if registered there, is taken off (once) and called; the
\* draws are such that its loop ends
VideoEnded(target, draws) ==
    /\ target \in video.playing
    /\ LET stopped == [video EXCEPT !.playing = @ \ {target},
                                    !.ended = @ \ {target}, !.op = "ended"]
           currentVideoSrc == video.src[video.activeVideo]
       IN  IF target \in video.ended
           THEN /\ \E i \in DOMAIN draws : videoList[draws[i]] # currentVideoSrc
                /\ video' = switchVideo(stopped, draws)
           ELSE /\ Len(draws) = 1 /\ draws[1] = 1
                /\ video' = stopped
    /\ UNCHANGED <<coreVars, asr, tts, toolVars, speech, boot, page>>

\* 'canplaythrough' is dispatched to an element: every closure registered
\* there is taken off (once) and called
CanPlayThrough(target, played) ==
    LET RECURSIVE Called(_, _)
        Called(v, n) == IF n = 0 THEN v ELSE Called(onCanPlayThrough(v, played), n - 1)
        dispatched == [video EXCEPT !.canplaythrough[target] = 0, !.op = "canplaythrough"]
    IN  /\ video' = Called(dispatched, video.canplaythrough[target])
        /\ played \/ video.canplaythrough[target] > 0
        /\ UNCHANGED <<coreVars, asr, tts, toolVars, speech, boot, page>>

NextVideo ==
    \/ \E target \in {1, 2}, n \in 1..MaxDraws :
          \E draws \in [1..n -> DOMAIN videoList] : VideoEnded(target, draws)
    \/ \E target \in {1, 2}, played \in BOOLEAN : CanPlayThrough(target, played)

SpecVideo == InitVideo /\ [][NextVideo]_vars

(***************************************************************************)
(* Properties.                                                             *)
(***************************************************************************)
Range(f) == {f[i] : i \in DOMAIN f}

IsInvoked(e) == e.invoked

IsLocalPath(e) == e.path = "local"

\* the backend calls an invocation made, in order
Calls(c) == SelectSeq(c.paths, IsInvoked)

LocalPaths(c) == SelectSeq(c.paths, IsLocalPath)

AllPathsFailed(c) == \A i \in 1..Len(c.paths) : c.paths[i].outcome = "fail"

NonDegenerate(text) == text # <<>> /\ text # <<".">> /\ Trim(text) # <<>>

\* the persona and instruction sentences of a mode's local template
ModeFragment(mode) == SubSeq(ModeTemplate(mode, <<>>), 1, 2)

\* C1: think never rejects: whatever the backends and isConfigured() do,
\* no think invocation ends rejected; it ends resolved with a text.
C1_ThinkNeverRejects ==
    /\ call.pc # "rejected"
    /\ call.pc = "done" => call.via # "none" /\ call.result \in Seq(STRING)

\* isConfigured() raised and the local fallback failed too: an apology
C1_Witness ==
    /\ call.pc = "done" /\ call.cfg = "raise"
    /\ call.via = "apology"
    /\ Len(call.paths) = 1 /\ call.paths[1].outcome = "fail"

\* C2: the text think resolves to is never empty, "." or whitespace-only,
\* whatever text the cloud chat or the local generator returned.
C2_NeverDegenerate == call.pc = "done" => NonDegenerate(call.result)

\* C3: on the cloud path (useCloudAPI and isConfigured() true, useCloudAPI
\* still true in the catch block), a failed chat call is followed by exactly
\* one invocation of the local path, and think resolves to what that path
\* returns when it does not fail.
C3_FallbackOnce ==
    ( /\ call.startCloud /\ call.cfg = "true"
      /\ call.paths # <<>> /\ call.paths[1].outcome = "fail"
      /\ call.catchCloud = "true" )
    => LET locals == LocalPaths(call)
       IN  /\ Len(locals) = 1
           /\ locals[1].outcome = "ok" =>
                 /\ call.pc = "done"
                 /\ call.result = locals[1].ret
                 /\ call.via \in {"local", "pool", "placeholder"}

C3_Witness ==
    /\ call.pc = "done" /\ call.startCloud /\ call.cfg = "true"
    /\ Len(call.paths) = 2
    /\ call.paths[1].path = "cloud" /\ call.paths[1].outcome = "fail"
    /\ call.paths[2].path = "local" /\ call.paths[2].outcome = "ok"
    /\ call.via = "local" /\ call.result = <<"a", "a", "a">>

\* C4: the first path of a think invocation is the cloud path iff
\* useCloudAPI was true and isConfigured() returned true when it started;
\* otherwise every path it takes is the local path.
C4_FirstBackend ==
    /\ call.pc # "idle" => call.paths # <<>>
    /\ call.paths # <<>> =>
          /\ call.paths[1].path = "cloud" <=> (call.startCloud /\ call.cfg = "true")
          /\ ~(call.startCloud /\ call.cfg = "true") =>
                \A i \in 1..Len(call.paths) : call.paths[i].path = "local"

\* cloud selected but not configured: local first, and local again after
\* its failure, never the cloud
C4_Witness ==
    /\ call.startCloud /\ call.cfg = "false"
    /\ Len(call.paths) = 2
    /\ call.paths[1].path = "local" /\ call.paths[2].path = "local"

\* C5: with useCloudAPI = true and isConfigured() = false think makes the
\* same backend calls and resolves to the same kind of result as with
\* useCloudAPI = false, on the same utterance and generator outcomes.
C5_SameAsLocalSelected ==
    (Settled(pairA) /\ Settled(pairB)) =>
        /\ Calls(pairA) = Calls(pairB)
        /\ pairA.via = pairB.via

\* C6: the prompt a think call hands to the local generator right after
\* setChatMode(m) returned true contains the instruction fragment of mode m.
C6_LocalPromptHasModeFragment ==
    [][ ( /\ lastOp.op = "setChatMode" /\ lastOp.ret
          /\ call.pc = "idle" /\ call'.pc = "local" )
        => Includes(call'.paths[1].prompt, ModeFragment(lastOp.arg)) ]_vars

\* C7: setChatMode(mode) returns true and sets currentMode to mode iff mode
\* is casual, assistant or creative; otherwise it returns false and leaves
\* currentMode and useCloudAPI as they were.
C7_SetChatMode ==
    [][ lastOp'.op = "setChatMode" =>
          LET mode == lastOp'.arg
          IN  /\ mode \in {"casual", "assistant", "creative"} =>
                    lastOp'.ret /\ currentMode' = mode
              /\ mode \notin {"casual", "assistant", "creative"} =>
                    /\ ~lastOp'.ret
                    /\ currentMode' = currentMode
                    /\ useCloudAPI' = useCloudAPI ]_vars

C7_Witness ==
    /\ lastOp.op = "setChatMode" /\ ~lastOp.ret
    /\ currentMode = "creative" /\ useCloudAPI

\* C8: currentMode is always one of casual, assistant, creative.
C8_ModeValid == currentMode \in {"casual", "assistant", "creative"}

C8_Witness ==
    /\ lastOp.op = "setChatMode" /\ lastOp.arg = "invalid"
    /\ currentMode = "assistant"

\* C9: switchProvider('local') returns true and clears useCloudAPI;
\* switchProvider(p) returns what cloudAPI.switchProvider(p) returned, sets
\* useCloudAPI on success and leaves it on failure; nothing else turns
\* useCloudAPI from false to true.
C9_SwitchProvider ==
    [][ /\ lastOp'.op = "switchProvider" =>
              IF lastOp'.arg = "local"
              THEN lastOp'.ret /\ ~useCloudAPI'
              ELSE /\ lastOp'.ret = cloudSwitchProvider(lastOp'.arg)
                   /\ lastOp'.ret => useCloudAPI'
                   /\ ~lastOp'.ret => useCloudAPI' = useCloudAPI
        /\ (~useCloudAPI /\ useCloudAPI') =>
              /\ lastOp'.op = "switchProvider"
              /\ lastOp'.arg # "local" /\ lastOp'.ret ]_vars

\* a failed switch while the cloud was selected leaves it selected
C9_Witness ==
    /\ lastOp.op = "switchProvider" /\ lastOp.arg = "bogus" /\ ~lastOp.ret
    /\ useCloudAPI

\* C10: when every path a think invocation took has failed, it resolves to
\* one of the four apology strings.
C10_AllFailedApology ==
    (Settled(call) /\ AllPathsFailed(call)) =>
        /\ call.pc = "done"
        /\ call.via = "apology"
        /\ call.result \in Range(errorResponses)

\* the cloud chat call failed, then the local fallback failed
C10_Witness ==
    /\ call.pc = "done" /\ Len(call.paths) = 2
    /\ call.paths[1].path = "cloud" /\ call.paths[1].outcome = "fail"
    /\ call.paths[2].path = "local" /\ call.paths[2].outcome = "fail"
    /\ call.result \in Range(errorResponses)

\* C11: while no local model is loaded, every local path a think invocation
\* takes (directly or as the fallback after a cloud failure) returns the
\* placeholder without invoking the generator, and think resolves to it.
C11_PlaceholderWithoutGenerator ==
    ~llm =>
        /\ \A i \in 1..Len(call.paths) :
              call.paths[i].path = "local" =>
                  /\ ~call.paths[i].invoked
                  /\ call.paths[i].outcome = "ok"
                  /\ call.paths[i].ret = Placeholder
                  /\ i = Len(call.paths)
                  /\ call.pc = "done" /\ call.result = Placeholder
        /\ call.pc \notin {"local", "fallback"}

\* the placeholder as the fallback of a failed cloud chat call
C11_Witness ==
    /\ ~llm /\ call.pc = "done" /\ Len(call.paths) = 2
    /\ call.paths[1].path = "cloud" /\ call.paths[1].outcome = "fail"
    /\ call.paths[2].path = "local" /\ ~call.paths[2].invoked
    /\ call.result = Placeholder

\* C12: when the generator returns exactly the prompt, or a text that with
\* the echoed prompt removed is empty, whitespace-only, shorter than 3
\* characters or ".", the local path returns one of the five natural
\* responses and not that text.
C12_DegenerateReplaced ==
    LET echoed == englishPrompt(localRun.prompt)
        rest   == ReplaceFirst(localRun.generated, echoed, <<>>)
    IN  ( /\ localRun.via \in {"local", "pool"}
          /\ \/ localRun.generated = echoed
             \/ rest = <<>>
             \/ Trim(rest) = <<>>
             \/ StrLen(rest) < 3
             \/ rest = <<".">> )
        => /\ localRun.returned \in Range(naturalResponses)
           /\ localRun.returned # rest

\* the pure echo
C12_Witness ==
    /\ localRun.via = "pool"
    /\ localRun.generated = englishPrompt(localRun.prompt)
    /\ localRun.returned \in Range(naturalResponses)

\* C13: the local path returns clean(g), the generated text with the echoed
\* prompt removed and then trimmed in all cases, when clean(g) has at least
\* 3 characters and is not "."; otherwise it returns a natural response.
C13_AlwaysTrimmed ==
    LET echoed == englishPrompt(localRun.prompt)
        clean  == Trim(ReplaceFirst(localRun.generated, echoed, <<>>))
    IN  localRun.via \in {"local", "pool"} =>
            IF StrLen(clean) >= 3 /\ clean # <<".">>
            THEN localRun.returned = clean
            ELSE localRun.returned \in Range(naturalResponses)

\* C14: a think invocation acts on the backend selection it found when it
\* started: whether a failure of its first path is followed by the local
\* fallback depends on useCloudAPI as it was at the start, whatever
\* switchProvider or setChatMode did while the invocation was suspended.
C14_SnapshotAtStart ==
    ( /\ call.paths # <<>> /\ call.cfg # "raise"
      /\ call.paths[1].outcome = "fail" )
    => (Len(call.paths) >= 2 <=> call.startCloud)

\* C15: the backend calls of one think invocation are [cloud chat],
\* [cloud chat (failed), local generation] or [local generation]: at most one
\* is in flight, the generator is invoked at most once, and a second call
\* follows only a failed cloud chat call.
C15_CallSequence ==
    LET cs == Calls(call)
    IN  /\ Len(cs) <= 2
        /\ \A i \in 1..(Len(cs) - 1) : cs[i].outcome # "pending"
        /\ Len(SelectSeq(cs, IsLocalPath)) <= 1
        /\ Len(cs) = 2 =>
              /\ cs[1].path = "cloud" /\ cs[1].outcome = "fail"
              /\ cs[2].path = "local"

\* C16: every step of think, on every path, leaves currentMode, useCloudAPI
\* and the model handles llm, asr and tts (and the cloud collaborator's
\* configuration) as they were.
C16_ThinkFrame ==
    [][UNCHANGED <<currentMode, useCloudAPI, llm, asr, tts, cloudKey>>]_vars

C16_Witness ==
    /\ call.pc = "done" /\ call.via = "local"
    /\ Len(Calls(call)) = 2
    /\ useCloudAPI /\ llm /\ ~asr /\ ~tts /\ currentMode = "creative"

\* C17: provided every backend call settles, a started think invocation
\* eventually resolves (it is never rejected), it makes at most two backend
\* calls, and no step takes a pending invocation back to idle.
C17_ThinkCompletes ==
    /\ (call.pc # "idle") ~> (call.pc = "done")
    /\ [](call.pc # "rejected")
    /\ [](Len(Calls(call)) <= 2)
    /\ [][Waiting(call) => call'.pc # "idle"]_vars

C17_Witness ==
    /\ call.pc = "done" /\ call.via = "apology"
    /\ Len(Calls(call)) = 2

\* C18: the prompt think hands to the cloud chat call is the persona framing,
\* the literal utterance and the response cue, whatever the conversation
\* mode: the same text for every mode.
C18_CloudPromptIgnoresMode ==
    \A i \in DOMAIN call.paths :
        call.paths[i].path = "cloud" =>
            /\ call.paths[i].prompt =
                  <<PersonaLocal, InstrLocal, OpenCloud>> \o call.prompt \o <<CloseCloud>>
            /\ \A m1, m2 \in ValidModes :
                  enhancePromptForMode(call.prompt, FALSE, m1)
                      = enhancePromptForMode(call.prompt, FALSE, m2)

C18_Witness ==
    /\ call.pc = "cloud" /\ currentMode = "creative"
    /\ call.prompt = <<"a">>

\* C19: enhancePromptForMode(utterance, true) returns, for each of the three
\* modes, that mode's persona framing, mode instruction, quoted utterance and
\* response cue in that order, and for every other value of currentMode the
\* casual template.
C19_LocalTemplateTotal ==
    (composed # NoPrompt /\ composed.isLocal) =>
        composed.text =
            ( CASE composed.mode = "assistant" -> <<PersonaAssistant, InstrAssistant>>
                [] composed.mode = "creative" -> <<PersonaCreative, InstrCreative>>
                [] OTHER -> <<PersonaCasual, InstrCasual>> )
            \o <<OpenMode>> \o composed.prompt \o <<CloseQuoted>>

\* the bytes of a buffer from offset, and little-endian fields read back
BytesAt(buffer, offset, n) == [i \in 1..n |-> buffer[offset + i]]

Uint16At(buffer, offset) == buffer[offset + 1] + 256 * buffer[offset + 2]

Uint32At(buffer, offset) ==
    [hi |-> Uint16At(buffer, offset + 2), lo |-> Uint16At(buffer, offset),
     half |-> FALSE]

\* a + b, exactly
Sum(a, b) ==
    LET halves == (IF a.half THEN 1 ELSE 0) + (IF b.half THEN 1 ELSE 0)
        l == a.lo + b.lo + halves \div 2
    IN  [hi |-> a.hi + b.hi + l \div 65536, lo |-> l % 65536, half |-> halves = 1]

\* the header the WAV format asks for, for N samples at rate r
HeaderConsistent(w) ==
    LET N == Len(w.audioData)
        b == w.buffer
    IN  /\ w.byteLength = 44 + 2 * N
        /\ Len(b) = 44 + 2 * N
        /\ BytesAt(b, 0, 4) = <<82, 73, 70, 70>>
        /\ Uint32At(b, 4) = Number(36 + 2 * N)
        /\ BytesAt(b, 8, 4) = <<87, 65, 86, 69>>
        /\ BytesAt(b, 12, 4) = <<102, 109, 116, 32>>
        /\ Uint32At(b, 16) = Number(16)
        /\ Uint16At(b, 20) = 1
        /\ Uint16At(b, 22) = 1
        /\ Uint32At(b, 24) = w.sampleRate
        /\ Uint32At(b, 28) = Sum(w.sampleRate, w.sampleRate)
        /\ Uint16At(b, 32) = 2
        /\ Uint16At(b, 34) = 16
        /\ BytesAt(b, 36, 4) = <<100, 97, 116, 97>>
        /\ Uint32At(b, 40) = Number(2 * N)

\* an integer sample rate r with 0 <= r and 2r < 2^32
RateFitsHeader(r) == ~r.half /\ r.hi < 32768

Int16At(buffer, offset) ==
    LET u == Uint16At(buffer, offset)
    IN  IF u >= 32768 THEN u - 65536 ELSE u

\* the i-th encoded sample of an encoding
EncodedSample(w, i) == Int16At(w.buffer, 44 + 2 * (i - 1))

\* what the encoder writes for one sample on its own
EncodedAlone(sample) ==
    Int16At(convertFloat32ArrayToWav(<<sample>>, Number(16000)), 44)

\* C21: the encoder clamps before it scales: a sample above 1.0 is encoded
\* as 1.0 is, a sample below -1.0 as -1.0 is, and no encoded sample leaves the
\* signed 16-bit range by wrapping: it keeps the sign of its sample.
C21_ClampBeforeScale ==
    \A i \in DOMAIN wav.audioData :
        LET s == wav.audioData[i]
            v == EncodedSample(wav, i)
        IN  /\ s.n > s.d => v = EncodedAlone([n |-> 1, d |-> 1]) /\ v = 32767
            /\ s.n < -s.d => v = EncodedAlone([n |-> -1, d |-> 1]) /\ v = -32767
            /\ s.n > 0 => v > 0
            /\ s.n < 0 => v < 0
            /\ s.n = 0 => v = 0

C21_Witness ==
    /\ Len(wav.audioData) = 2
    /\ wav.audioData[1] = [n |-> 3, d |-> 2]
    /\ wav.audioData[2] = [n |-> -2, d |-> 1]
    /\ EncodedSample(wav, 1) = 32767

\* C22: an in-range sample s is written, in input order from offset 44, as a
\* little-endian signed 16-bit integer within 1 of s * 32767; [0.0, 1.0, -1.0]
\* at 16000 Hz gives 50 bytes whose samples are within 1 of 0, 32767, -32768.
C22_WithinOneLsb ==
    /\ \A i \in DOMAIN wav.audioData :
          LET s == wav.audioData[i]
              v == EncodedSample(wav, i)
          IN  (s.n <= s.d /\ s.n >= -s.d) =>
                  /\ v * s.d - s.n * 32767 <= s.d
                  /\ s.n * 32767 - v * s.d <= s.d
    /\ ( /\ wav.audioData = <<[n |-> 0, d |-> 1], [n |-> 1, d |-> 1], [n |-> -1, d |-> 1]>>
         /\ wav.sampleRate = Number(16000) )
       => /\ Len(wav.buffer) = 50
          /\ EncodedSample(wav, 1) \in {-1, 0, 1}
          /\ EncodedSample(wav, 2) \in {32766, 32767}
          /\ EncodedSample(wav, 3) \in {-32768, -32767}

C22_Witness ==
    /\ wav.audioData = <<[n |-> 0, d |-> 1], [n |-> 1, d |-> 1], [n |-> -1, d |-> 1]>>
    /\ wav.sampleRate = Number(16000)
    /\ EncodedSample(wav, 3) = -32767

\* C23: listen without an ASR model rejects and calls no model; speak
\* without a usable TTS model (absent, or failed) and without platform speech
\* synthesis rejects with 'TTS is not available'; speak with a failed TTS
\* model and platform speech synthesis goes on to the platform voice and
\* resolves to true exactly when playback has started; none resolves to text.
C23_SpeechUnavailable ==
    /\ (speech.op = "listen" /\ ~asr) =>
          /\ speech.outcome = "rejected" /\ speech.kind = "error"
          /\ speech.calls = <<>>
    /\ (speech.op = "speak" /\ (~tts \/ speech.failed) /\ ~speech.synth) =>
          /\ speech.outcome = "rejected"
          /\ speech.msg = "TTS is not available"
    /\ (speech.op = "speak" /\ speech.failed /\ speech.synth) =>
          /\ speech.calls[Len(speech.calls)] = "speechSynthesis"
          /\ speech.pc = "playing" <=> speech.outcome = "resolved"
          /\ speech.outcome = "resolved" => speech.kind = "true"
    /\ speech.op = "speak" => speech.kind # "text"

C23_Witness ==
    /\ speech.op = "speak" /\ speech.failed /\ speech.synth
    /\ speech.calls = <<"fetch", "tts", "speechSynthesis">>
    /\ speech.outcome = "resolved" /\ speech.kind = "true"

\* C27: however getInstance calls interleave, at most one BellaAI object is
\* constructed, init is started at most once (each load attempted at most
\* once), and every call resolves to that one object.
C27_OneInstance ==
    /\ boot.constructed <= 1
    /\ boot.inits <= 1
    /\ \A i, j \in DOMAIN boot.loads : boot.loads[i] = boot.loads[j] => i = j
    /\ \A c \in Callers :
          boot.callers[c].pc = "resolved" => boot.callers[c].obj = 1

C27_Witness ==
    /\ \A c \in Callers : boot.callers[c].pc = "resolved"
    /\ boot.init = "done"

\* C28: a getInstance call resolves only after init has completed on the
\* instance it returns.
C28_ResolvesAfterInit ==
    \A c \in Callers : boot.callers[c].pc = "resolved" => boot.callers[c].ready

\* C29: init never rejects: the loads are attempted in the order LLM, ASR,
\* TTS whichever of them fail; when init is done all three were attempted, a
\* failed ASR or TTS handle is null, a failed LLM handle is unset, the
\* getInstance call that awaited init has resolved, and think on the local
\* path answers with the placeholder when the LLM is missing.
C29_InitNeverRejects ==
    /\ boot.init # "rejected"
    /\ \E n \in 0..3 : boot.loads = SubSeq(<<"llm", "asr", "tts">>, 1, n)
    /\ boot.init = "done" =>
          /\ boot.loads = <<"llm", "asr", "tts">>
          /\ llm <=> "llm" \notin boot.failed
          /\ asr <=> "asr" \notin boot.failed
          /\ tts <=> "tts" \notin boot.failed
          /\ \A c \in Callers : boot.callers[c].pc # "awaiting"
          /\ ~llm => thinkWithLocalModel(IdleCall, llm, "local").via = "placeholder"

C29_Witness ==
    /\ boot.init = "done"
    /\ boot.failed = {"llm", "asr", "tts"}
    /\ \E c \in Callers : boot.callers[c].pc = "resolved" /\ boot.callers[c].ready

\* C24: the page issues no think call before initialization has completed:
\* while getInstance is pending the microphone button is disabled, the chat
\* callback is unset and no handler is registered; the bellaAI handle is set
\* only when all three loads have been attempted and init has returned; and
\* every handler invocation that called think did so after that.
C24_ThinkAfterInit ==
    /\ (page.loaded /\ boot.callers[1].pc = "awaiting") =>
          /\ page.micDisabled /\ page.onMessageSend = "unset"
          /\ ~page.bellaAI /\ ~page.wired
    /\ page.bellaAI => boot.init = "done" /\ boot.loads = <<"llm", "asr", "tts">>
    /\ \A t \in Tasks :
          page.tasks[t].kind \in {"chat", "voice"} =>
              page.tasks[t].ready /\ page.bellaAI

C24_Witness ==
    \E t \in Tasks :
        /\ page.tasks[t].kind = "voice" /\ page.tasks[t].pc = "think"
        /\ page.tasks[t].ready
        /\ boot.failed = {"asr"}

\* C25: in the chat callback and in the voice handler alike, when speak
\* resolved to a non-empty sample array the handler has encoded the samples
\* and started playback of the result, and when speak resolved to true it has
\* encoded and played nothing.
C25_AudioEncodedAndPlayed ==
    \A t \in Tasks :
        LET k == page.tasks[t]
        IN  /\ (k.pc = "done" /\ k.spoken = "audio") => k.encoded > 0 /\ k.played # "none"
            /\ k.spoken = "true" => k.encoded = 0 /\ k.played = "none"

\* the reply an invocation got from think is what it displayed last
ReplyDisplayed(p, t) ==
    LET k == p.tasks[t]
    IN  /\ k.kind = "chat" =>
              /\ k.chat # <<>>
              /\ k.chat[Len(k.chat)] = [role |-> "assistant", text |-> k.reply]
        /\ k.kind = "voice" =>
              /\ p.transcript # <<>>
              /\ p.transcript[Len(p.transcript)] = Node("bella", t, k.reply)

\* C26: in both handlers the reply is displayed by the step that calls
\* speak, and no step in which speak or the playback settles, a rejection
\* included, changes the transcript or the messages the handler has added to
\* the chat.
C26_SpeechFailureKeepsReply ==
    [][ \A t \in Tasks :
          LET k == page.tasks[t]
              k2 == page'.tasks[t]
          IN  /\ (k.pc = "think" /\ k2.pc = "speak") => ReplyDisplayed(page', t)
              /\ (k.pc \in {"speak", "play"} /\ k2.pc # k.pc) =>
                    /\ page'.transcript = page.transcript
                    /\ k2.chat = k.chat ]_vars

C26_Witness ==
    \E t \in Tasks :
        /\ page.tasks[t].kind = "voice" /\ page.tasks[t].pc = "done"
        /\ page.tasks[t].played = "failed"
        /\ ReplyDisplayed(page, t)

\* C30: for every final utterance the voice handler passed to think, the
\* reply is appended to the transcript once think has resolved and no
\* processing-error message is shown instead, whatever recognition results
\* arrived in between.
C30_ReplyReachesTranscript ==
    \A t \in Tasks :
        /\ ~HasChild(page.transcript, Node("error", t, ErrorMsg))
        /\ (page.tasks[t].kind = "voice" /\ page.tasks[t].pc = "done") =>
              page.tasks[t].spoken # "none"

\* C31: the two elements always hold opposite roles; a run of switchVideo
\* selects a source other than the one the active element holds and gives it
\* to the inactive element; a run of onCanPlayThrough swaps the two roles and
\* leaves switchVideo registered for 'ended' on the new active element and
\* on no other.
C31_Crossfade ==
    /\ [](/\ {video.activeVideo, video.inactiveVideo} = {1, 2}
          /\ video.op = "switchVideo" =>
                video.nextVideoSrc # video.src[video.activeVideo])
    /\ [][ /\ video'.op = "switchVideo" =>
                /\ video'.nextVideoSrc # video.src[video.activeVideo]
                /\ video'.src[video.inactiveVideo] = video'.nextVideoSrc
                /\ video'.src[video.activeVideo] = video.src[video.activeVideo]
                /\ video'.activeVideo = video.activeVideo
           /\ video'.op = "onCanPlayThrough" =>
                /\ video'.activeVideo = video.inactiveVideo
                /\ video'.inactiveVideo = video.activeVideo
                /\ video'.ended = {video'.activeVideo}
                /\ video'.canplaythrough = <<0, 0>> ]_vars

\* video1 is active again after two completed switches, playing a listed source
C31_Witness ==
    /\ video.op = "onCanPlayThrough"
    /\ video.activeVideo = 1
    /\ video.src[2] \in {videoList[i] : i \in DOMAIN videoList}
    /\ video.nextVideoSrc = video.src[1]
    /\ video.ended = {1}

====
